---- MODULE Spec2Model ----
(***************************************************************************)
(* Keychain store of bitcoin-keychain-svc: the per-descriptor Meta         *)
(* (pkg/keystore/store.go), its accessors, and the keychain engine that    *)
(* composes them (creation, mark-as-used, fresh addresses, observable      *)
(* range).                                                                 *)
(***************************************************************************)
EXTENDS Integers, Sequences, FiniteSets, TLC

----------------------------------------------------------------------------
(* Bounds of the model *)

\* highest address index a request may name
MaxIndex == 2
\* a mark request is issued while the used paths in the store plus the
\* paths it names are at most MaxUsed
MaxUsed == 3
\* the same, in the runs that also issue the read requests
MaxUsedRead == 2
\* a short lookahead zone, next to the default one
LookaheadSmall == 2
\* batch sizes asked of GetFreshAddresses are 0 .. MaxFresh
MaxFresh == 2
\* highest index marked in the runs that mark one chain only
ScenarioIndex == 3
\* used paths the store holds before the concurrent calls start, in the
\* runs with reads and deadlines
MaxSetup == 1
\* highest index marked, and used paths held by the store, in the runs on
\* two keychains
PairIndex == 1
MaxPairUsed == 3

----------------------------------------------------------------------------
(* Program constants *)

lookaheadSize == 20

External == 0
Internal == 1
\* a change tag that is neither External nor Internal
OtherChange == 2

Changes == {External, Internal}

BIP44 == "BIP44"
BIP49 == "BIP49"
BIP84 == "BIP84"

Mainnet == "mainnet"

NoErr == "OK"
ErrUnrecognizedChange == "UNRECOGNIZED_CHANGE"
ErrAddressNotObservable == "ADDRESS_NOT_OBSERVABLE"
ErrAlreadyExists == "ALREADY_EXISTS"
ErrNotFound == "NOT_FOUND"
ErrDeadlineExceeded == "DEADLINE_EXCEEDED"

\* the account descriptors of the model
Descriptors == {"pkh(xpubA)", "wpkh(xpubB)"}

\* the descriptor the single-keychain runs work on
Primary == "pkh(xpubA)"

\* sizes CreateKeychain is asked for
LookaheadSizes == {LookaheadSmall, lookaheadSize}

\* a Schema entry that holds no Meta
NoMeta == [absent |-> TRUE]

----------------------------------------------------------------------------
(* KeychainInfo and Meta accessors (pkg/keystore/store.go) *)

DerivationPath(change, index) == <<change, index>>

\* ChangeXPub with the two cases exchanged
ChangeXPubSwapped(m, change) ==
    IF change = External THEN [val |-> m.Main.InternalXPub, err |-> NoErr]
    ELSE IF change = Internal THEN [val |-> m.Main.ExternalXPub, err |-> NoErr]
    ELSE [val |-> 0, err |-> ErrUnrecognizedChange]

ChangeXPub(m, change) ==
    IF change = External THEN [val |-> m.Main.ExternalXPub, err |-> NoErr]
    ELSE IF change = Internal THEN [val |-> m.Main.InternalXPub, err |-> NoErr]
    ELSE [val |-> 0, err |-> ErrUnrecognizedChange]

\* MaxConsecutiveIndex with the two cases exchanged
MaxConsecutiveIndexSwapped(m, change) ==
    IF change = External
    THEN [val |-> m.Main.MaxConsecutiveInternalIndex, err |-> NoErr]
    ELSE IF change = Internal
    THEN [val |-> m.Main.MaxConsecutiveExternalIndex, err |-> NoErr]
    ELSE [val |-> 0, err |-> ErrUnrecognizedChange]

MaxConsecutiveIndex(m, change) ==
    IF change = External
    THEN [val |-> m.Main.MaxConsecutiveExternalIndex, err |-> NoErr]
    ELSE IF change = Internal
    THEN [val |-> m.Main.MaxConsecutiveInternalIndex, err |-> NoErr]
    ELSE [val |-> 0, err |-> ErrUnrecognizedChange]

\* SetMaxConsecutiveIndex whose default case assigns the Internal index
SetMaxConsecutiveIndexDefaultInternal(m, change, index) ==
    IF change = External
    THEN [meta |-> [m EXCEPT !.Main.MaxConsecutiveExternalIndex = index],
          err |-> NoErr]
    ELSE [meta |-> [m EXCEPT !.Main.MaxConsecutiveInternalIndex = index],
          err |-> NoErr]

\* SetMaxConsecutiveIndex with the two cases exchanged
SetMaxConsecutiveIndexSwapped(m, change, index) ==
    IF change = External
    THEN [meta |-> [m EXCEPT !.Main.MaxConsecutiveInternalIndex = index],
          err |-> NoErr]
    ELSE IF change = Internal
    THEN [meta |-> [m EXCEPT !.Main.MaxConsecutiveExternalIndex = index],
          err |-> NoErr]
    ELSE [meta |-> m, err |-> ErrUnrecognizedChange]

\* SetMaxConsecutiveIndex that advances the index by one instead of setting it
SetMaxConsecutiveIndexByOne(m, change, index) ==
    IF change = External
    THEN [meta |-> [m EXCEPT !.Main.MaxConsecutiveExternalIndex = @ + 1],
          err |-> NoErr]
    ELSE IF change = Internal
    THEN [meta |-> [m EXCEPT !.Main.MaxConsecutiveInternalIndex = @ + 1],
          err |-> NoErr]
    ELSE [meta |-> m, err |-> ErrUnrecognizedChange]

SetMaxConsecutiveIndex(m, change, index) ==
    IF change = External
    THEN [meta |-> [m EXCEPT !.Main.MaxConsecutiveExternalIndex = index],
          err |-> NoErr]
    ELSE IF change = Internal
    THEN [meta |-> [m EXCEPT !.Main.MaxConsecutiveInternalIndex = index],
          err |-> NoErr]
    ELSE [meta |-> m, err |-> ErrUnrecognizedChange]

NonConsecutiveIndexes(m, change) ==
    IF change = External
    THEN [val |-> m.Main.NonConsecutiveExternalIndexes, err |-> NoErr]
    ELSE IF change = Internal
    THEN [val |-> m.Main.NonConsecutiveInternalIndexes, err |-> NoErr]
    ELSE [val |-> <<>>, err |-> ErrUnrecognizedChange]

\* the filter loop of SetNonConsecutiveIndexes: keeps, in order, the
\* indexes that are not less than the max consecutive index
FilterIndexesNone(indexes, maxConsecutiveIndex) == indexes

\* the filter loop with a strict comparison
FilterIndexesStrict(indexes, maxConsecutiveIndex) ==
    SelectSeq(indexes, LAMBDA i : i > maxConsecutiveIndex)

FilterIndexes(indexes, maxConsecutiveIndex) ==
    SelectSeq(indexes, LAMBDA i : i >= maxConsecutiveIndex)

\* SetNonConsecutiveIndexes that stores the External result in the Internal
\* field and the Internal result in the External one
SetNonConsecutiveIndexesSwapped(m, change, indexes) ==
    LET mci == MaxConsecutiveIndex(m, change) IN
    IF mci.err # NoErr THEN [meta |-> m, err |-> mci.err]
    ELSE LET result == FilterIndexes(indexes, mci.val) IN
         IF change = External
         THEN [meta |-> [m EXCEPT !.Main.NonConsecutiveInternalIndexes = result],
               err |-> NoErr]
         ELSE IF change = Internal
         THEN [meta |-> [m EXCEPT !.Main.NonConsecutiveExternalIndexes = result],
               err |-> NoErr]
         ELSE [meta |-> m, err |-> ErrUnrecognizedChange]

\* SetNonConsecutiveIndexes that appends the result to the list the field
\* holds instead of replacing it
SetNonConsecutiveIndexesAppending(m, change, indexes) ==
    LET mci == MaxConsecutiveIndex(m, change) IN
    IF mci.err # NoErr THEN [meta |-> m, err |-> mci.err]
    ELSE LET result == FilterIndexes(indexes, mci.val) IN
         IF change = External
         THEN [meta |-> [m EXCEPT !.Main.NonConsecutiveExternalIndexes =
                                     @ \o result],
               err |-> NoErr]
         ELSE IF change = Internal
         THEN [meta |-> [m EXCEPT !.Main.NonConsecutiveInternalIndexes =
                                     @ \o result],
               err |-> NoErr]
         ELSE [meta |-> m, err |-> ErrUnrecognizedChange]

SetNonConsecutiveIndexes(m, change, indexes) ==
    LET mci == MaxConsecutiveIndex(m, change) IN
    IF mci.err # NoErr THEN [meta |-> m, err |-> mci.err]
    ELSE LET result == FilterIndexes(indexes, mci.val) IN
         IF change = External
         THEN [meta |-> [m EXCEPT !.Main.NonConsecutiveExternalIndexes = result],
               err |-> NoErr]
         ELSE IF change = Internal
         THEN [meta |-> [m EXCEPT !.Main.NonConsecutiveInternalIndexes = result],
               err |-> NoErr]
         ELSE [meta |-> m, err |-> ErrUnrecognizedChange]

\* MaxObservableIndex that leaves the non-consecutive indexes out
MaxObservableIndexNoGaps(m, change) ==
    IF change = External
    THEN [val |-> m.Main.MaxConsecutiveExternalIndex + m.Main.LookaheadSize,
          err |-> NoErr]
    ELSE IF change = Internal
    THEN [val |-> m.Main.MaxConsecutiveInternalIndex + m.Main.LookaheadSize,
          err |-> NoErr]
    ELSE [val |-> 0, err |-> ErrUnrecognizedChange]

\* MaxObservableIndex whose Internal case counts the External list
MaxObservableIndexCopied(m, change) ==
    IF change = External
    THEN LET n == Len(m.Main.NonConsecutiveExternalIndexes) IN
         [val |-> m.Main.MaxConsecutiveExternalIndex + n
                    + m.Main.LookaheadSize,
          err |-> NoErr]
    ELSE IF change = Internal
    THEN LET n == Len(m.Main.NonConsecutiveExternalIndexes) IN
         [val |-> m.Main.MaxConsecutiveInternalIndex + n
                    + m.Main.LookaheadSize,
          err |-> NoErr]
    ELSE [val |-> 0, err |-> ErrUnrecognizedChange]

\* The sums are uint32 sums; address indexes are non-hardened (below 2^31)
\* and the lists are short, so they stay below 2^32 and never wrap.
MaxObservableIndex(m, change) ==
    IF change = External
    THEN LET n == Len(m.Main.NonConsecutiveExternalIndexes) IN
         [val |-> m.Main.MaxConsecutiveExternalIndex + n
                    + m.Main.LookaheadSize,
          err |-> NoErr]
    ELSE IF change = Internal
    THEN LET n == Len(m.Main.NonConsecutiveInternalIndexes) IN
         [val |-> m.Main.MaxConsecutiveInternalIndex + n
                    + m.Main.LookaheadSize,
          err |-> NoErr]
    ELSE [val |-> 0, err |-> ErrUnrecognizedChange]

----------------------------------------------------------------------------
(* Key and address codecs: stand-ins for BIP-32 CKDpub and the address    *)
(* encoders, injective in the key, the index and the scheme               *)

KeyRadix == 64

\* CKDpub: the child key of extended key k at a non-hardened index
DeriveExtendedKey(k, index) == k * KeyRadix + index + 1

\* scheme and account xpub named by a descriptor
ParseDescriptor(descriptor) ==
    IF descriptor = "pkh(xpubA)" THEN [Scheme |-> BIP44, XPub |-> 1]
    ELSE [Scheme |-> BIP84, XPub |-> 2]

\* address of a public key under a scheme and network
EncodeAddress(publicKey, scheme, net) ==
    <<(IF scheme = BIP44 THEN "1" ELSE IF scheme = BIP49 THEN "3" ELSE "bc1"),
      net, publicKey>>

\* address of the path (change, index) of the keychain m
AddressAt(m, change, index) ==
    EncodeAddress(DeriveExtendedKey(ChangeXPub(m, change).val, index),
                  m.Main.Scheme, m.Main.Network)

----------------------------------------------------------------------------
(* Keychain engine *)

\* the paths of the observable window of m
ObservablePaths(m) ==
    UNION {{DerivationPath(c, i) : i \in 0..(MaxObservableIndex(m, c).val - 1)}
             : c \in Changes}

\* observable-window extension: derive and address-index every path of the
\* observable window that the caches do not hold yet
ExtendWindow(m) ==
    LET want  == ObservablePaths(m) \ DOMAIN m.Derivations
        addrs == {AddressAt(m, p[1], p[2]) : p \in want}
    IN [m EXCEPT
          !.Derivations =
              [p \in DOMAIN m.Derivations \cup want |->
                  IF p \in DOMAIN m.Derivations THEN m.Derivations[p]
                  ELSE [PublicKey |->
                            DeriveExtendedKey(ChangeXPub(m, p[1]).val, p[2]),
                        Used |-> FALSE]],
          !.Addresses =
              [a \in DOMAIN m.Addresses \cup addrs |->
                  IF a \in DOMAIN m.Addresses THEN m.Addresses[a]
                  ELSE CHOOSE p \in want : AddressAt(m, p[1], p[2]) = a]]

\* the Meta CreateKeychain persists
NewMeta(descriptor, net, lookahead) ==
    LET d == ParseDescriptor(descriptor) IN
    ExtendWindow(
      [Main |-> [Descriptor |-> descriptor,
                 XPub |-> d.XPub,
                 SLIP32ExtendedPublicKey |-> <<d.Scheme, d.XPub>>,
                 ExternalXPub |-> DeriveExtendedKey(d.XPub, External),
                 MaxConsecutiveExternalIndex |-> 0,
                 InternalXPub |-> DeriveExtendedKey(d.XPub, Internal),
                 MaxConsecutiveInternalIndex |-> 0,
                 LookaheadSize |-> lookahead,
                 Scheme |-> d.Scheme,
                 Network |-> net,
                 NonConsecutiveExternalIndexes |-> <<>>,
                 NonConsecutiveInternalIndexes |-> <<>>],
       Derivations |-> <<>>,
       Addresses |-> <<>>])

Contains(indexes, i) == \E k \in 1..Len(indexes) : indexes[k] = i

\* gap closure: the first index from n on that is not in indexes
RECURSIVE CloseGaps(_, _)
CloseGaps(n, indexes) ==
    IF Contains(indexes, n) THEN CloseGaps(n + 1, indexes) ELSE n

\* MarkIndex that appends a gap index without looking for it in the list
MarkIndexAppend(m, change, i) ==
    LET mci == MaxConsecutiveIndex(m, change).val
        nci == NonConsecutiveIndexes(m, change).val
    IN IF i < mci THEN m
       ELSE IF i = mci
       THEN SetNonConsecutiveIndexes(
               SetMaxConsecutiveIndex(m, change, CloseGaps(i + 1, nci)).meta,
               change, nci).meta
       ELSE SetNonConsecutiveIndexes(m, change, Append(nci, i)).meta

\* the index accounting of a mark of index i on a chain
MarkIndex(m, change, i) ==
    LET mci == MaxConsecutiveIndex(m, change).val
        nci == NonConsecutiveIndexes(m, change).val
    IN IF i < mci THEN m
       ELSE IF i = mci
       THEN SetNonConsecutiveIndexes(
               SetMaxConsecutiveIndex(m, change, CloseGaps(i + 1, nci)).meta,
               change, nci).meta
       ELSE IF Contains(nci, i) THEN m
       ELSE SetNonConsecutiveIndexes(m, change, Append(nci, i)).meta

\* MarkPathAsUsed on a Meta: the new Meta, or an error and the old one
keystoreMarkPathAsUsed(m, path) ==
    LET change == path[1]
        i      == path[2]
        moi    == MaxObservableIndex(m, change)
    IN IF moi.err # NoErr THEN [meta |-> m, err |-> moi.err]
       ELSE IF i >= moi.val THEN [meta |-> m, err |-> ErrAddressNotObservable]
       ELSE LET m1 == MarkIndex(m, change, i)
                m2 == [m1 EXCEPT !.Derivations =
                          [p \in DOMAIN @ \cup {path} |->
                              IF p = path
                              THEN [PublicKey |-> DeriveExtendedKey(
                                                   ChangeXPub(m, change).val, i),
                                    Used |-> TRUE]
                              ELSE @[p]]]
            IN [meta |-> ExtendWindow(m2), err |-> NoErr]

\* the paths are marked in order; the first failure fails the request
RECURSIVE markPaths(_, _)
markPaths(m, paths) ==
    IF paths = <<>> THEN [meta |-> m, err |-> NoErr]
    ELSE LET r == keystoreMarkPathAsUsed(m, Head(paths)) IN
         IF r.err # NoErr THEN r ELSE markPaths(r.meta, Tail(paths))

\* MarkAddressesAsUsed on a Meta: the addresses are resolved through the
\* address index, then their paths are marked; an address the index does
\* not hold fails the request
keystoreMarkAddressesAsUsed(m, addresses) ==
    IF \E k \in 1..Len(addresses) : addresses[k] \notin DOMAIN m.Addresses
    THEN [meta |-> m, err |-> ErrAddressNotObservable]
    ELSE LET r == markPaths(m, [k \in 1..Len(addresses) |->
                                  m.Addresses[addresses[k]]])
         IN IF r.err # NoErr THEN [meta |-> m, err |-> r.err] ELSE r

\* indexes marked used on a chain of m
UsedIndexes(m, change) ==
    {p[2] : p \in {q \in DOMAIN m.Derivations :
                      q[1] = change /\ m.Derivations[q].Used}}

\* Keystore.GetFreshAddresses on a Meta: the addresses of the size indexes
\* from the max consecutive index on
keystoreGetFreshAddresses(m, change, size) ==
    LET mci == MaxConsecutiveIndex(m, change) IN
    IF mci.err # NoErr THEN [val |-> <<>>, err |-> mci.err]
    ELSE [val |-> [k \in 1..size |-> AddressAt(m, change, mci.val + k - 1)],
          err |-> NoErr]

Min(a, b) == IF a < b THEN a ELSE b

\* Keystore.GetAllObservableIndexes on a Meta: to is clipped to the last
\* observable index; the indexes from .. to, both included
keystoreGetAllObservableIndexes(m, change, from, to) ==
    LET moi == MaxObservableIndex(m, change) IN
    IF moi.err # NoErr THEN [val |-> <<>>, err |-> moi.err]
    ELSE LET last == Min(to, moi.val - 1) IN
         IF from > last THEN [val |-> <<>>, err |-> NoErr]
         ELSE [val |-> [k \in 1..(last - from + 1) |-> from + k - 1],
               err |-> NoErr]

\* GetAllObservableAddresses on a Meta: one entry per observable index
keystoreGetAllObservableAddresses(m, change, from, to) ==
    LET r == keystoreGetAllObservableIndexes(m, change, from, to) IN
    IF r.err # NoErr THEN r
    ELSE [val |-> [k \in 1..Len(r.val) |->
                     [Address |-> AddressAt(m, change, r.val[k]),
                      Derivation |-> DerivationPath(change, r.val[k]),
                      Change |-> change]],
          err |-> NoErr]

----------------------------------------------------------------------------
(* State *)

VARIABLES
    store,      \* Schema: descriptor -> Meta, NoMeta where there is no entry
    lastOp,     \* the last request served and its response
    calls,      \* the mark call each concurrent client has in flight
    lock        \* per descriptor, the client inside Store.Update

vars == <<store, lastOp, calls, lock>>

\* concurrent clients of the store
Clients == {"c1", "c2"}

NoClient == "none"

\* used paths held by the store
UsedCount ==
    Cardinality({dp \in {x \in Descriptors : store[x] # NoMeta}
                          \X (Changes \X (0..(MaxIndex + 1))) :
                   /\ dp[2] \in DOMAIN store[dp[1]].Derivations
                   /\ store[dp[1]].Derivations[dp[2]].Used})

\* change tags a request may carry
RequestChanges == Changes \cup {OtherChange}

\* paths a MarkPathAsUsed request names
RequestPaths == RequestChanges \X (0..MaxIndex)

\* an address that no keychain derives
UnknownAddress == <<"1", Mainnet, 0>>

\* addresses a MarkAddressesAsUsed request on descriptor d names: those of
\* the first indexes of its chains, and an unknown one
RequestAddresses(d) ==
    LET k == ParseDescriptor(d) IN
    {EncodeAddress(DeriveExtendedKey(DeriveExtendedKey(k.XPub, p[1]), p[2]),
                   k.Scheme, Mainnet)
        : p \in {<<External, 0>>, <<External, 1>>, <<Internal, 0>>}}
      \cup {UnknownAddress}

\* the address lists of one and of two addresses
AddressBatches(d) ==
    {<<a>> : a \in RequestAddresses(d)}
      \cup {<<ab[1], ab[2]>> : ab \in RequestAddresses(d) \X RequestAddresses(d)}

\* the response to request req: again tells that req repeats the previous
\* request and that the previous request succeeded
Response(req, err, val) ==
    [req |-> req, err |-> err, val |-> val,
     again |-> (lastOp.req = req /\ lastOp.err = NoErr)]

Init ==
    /\ store = [d \in Descriptors |-> NoMeta]
    /\ lastOp = [req |-> [op |-> "none"], err |-> NoErr, val |-> <<>>,
                 again |-> FALSE]
    /\ calls = [c \in Clients |-> [pc |-> "idle"]]
    /\ lock = [d \in Descriptors |-> NoClient]

\* Store.Update: read-modify-write of the Meta of d by f's result r
Update(d, r) ==
    store' = [store EXCEPT ![d] = IF r.err = NoErr THEN r.meta ELSE @]

\* Keystore.Create that replaces the Meta of a descriptor the store holds
CreateKeychainOverwrite(d, net, lookahead) ==
    LET req == [op |-> "CreateKeychain", descriptor |-> d, net |-> net,
                lookahead |-> lookahead] IN
    /\ store' = [store EXCEPT ![d] = NewMeta(d, net, lookahead)]
    /\ lastOp' = Response(req, NoErr, store'[d].Main)
    /\ UNCHANGED <<calls, lock>>

\* Keystore.Create
CreateKeychain(d, net, lookahead) ==
    LET req == [op |-> "CreateKeychain", descriptor |-> d, net |-> net,
                lookahead |-> lookahead] IN
    /\ IF store[d] # NoMeta
       THEN /\ lastOp' = Response(req, ErrAlreadyExists, <<>>)
            /\ UNCHANGED store
       ELSE /\ store' = [store EXCEPT ![d] = NewMeta(d, net, lookahead)]
            /\ lastOp' = Response(req, NoErr, store'[d].Main)
    /\ UNCHANGED <<calls, lock>>

\* DeleteKeychain
DeleteKeychain(d) ==
    LET req == [op |-> "DeleteKeychain", descriptor |-> d] IN
    /\ IF store[d] = NoMeta
       THEN /\ lastOp' = Response(req, ErrNotFound, <<>>)
            /\ UNCHANGED store
       ELSE /\ store' = [store EXCEPT ![d] = NoMeta]
            /\ lastOp' = Response(req, NoErr, <<>>)
    /\ UNCHANGED <<calls, lock>>

\* Keystore.Get
GetKeychainInfo(d) ==
    LET req == [op |-> "GetKeychainInfo", descriptor |-> d] IN
    /\ lastOp' = IF store[d] = NoMeta THEN Response(req, ErrNotFound, <<>>)
                 ELSE Response(req, NoErr, store[d].Main)
    /\ UNCHANGED <<store, calls, lock>>

\* Keystore.MarkPathAsUsed
MarkPathAsUsed(d, path) ==
    LET req == [op |-> "MarkPathAsUsed", descriptor |-> d, path |-> path] IN
    /\ IF store[d] = NoMeta
       THEN /\ lastOp' = Response(req, ErrNotFound, <<>>)
            /\ UNCHANGED store
       ELSE LET r == keystoreMarkPathAsUsed(store[d], path) IN
            /\ lastOp' = Response(req, r.err, <<>>)
            /\ Update(d, r)
    /\ UNCHANGED <<calls, lock>>

\* MarkAddressesAsUsed
MarkAddressesAsUsed(d, addresses) ==
    LET req == [op |-> "MarkAddressesAsUsed", descriptor |-> d,
                addresses |-> addresses] IN
    /\ IF store[d] = NoMeta
       THEN /\ lastOp' = Response(req, ErrNotFound, <<>>)
            /\ UNCHANGED store
       ELSE LET r == keystoreMarkAddressesAsUsed(store[d], addresses) IN
            /\ lastOp' = Response(req, r.err, <<>>)
            /\ Update(d, r)
    /\ UNCHANGED <<calls, lock>>

\* GetAccountExtendedKey: the account xpub of the keychain
GetAccountExtendedKey(d) ==
    LET req == [op |-> "GetAccountExtendedKey", descriptor |-> d] IN
    /\ lastOp' = IF store[d] = NoMeta THEN Response(req, ErrNotFound, <<>>)
                 ELSE Response(req, NoErr, store[d].Main.XPub)
    /\ UNCHANGED <<store, calls, lock>>

\* Keystore.GetFreshAddresses that marks the first address it hands out
GetFreshAddressesMarking(d, change, size) ==
    LET req == [op |-> "GetFreshAddresses", descriptor |-> d,
                change |-> change, size |-> size] IN
    /\ IF store[d] = NoMeta
       THEN /\ lastOp' = Response(req, ErrNotFound, <<>>)
            /\ UNCHANGED store
       ELSE LET r == keystoreGetFreshAddresses(store[d], change, size) IN
            /\ lastOp' = Response(req, r.err, r.val)
            /\ IF r.err = NoErr /\ size >= 1
               THEN Update(d, keystoreMarkAddressesAsUsed(store[d],
                                                          <<r.val[1]>>))
               ELSE UNCHANGED store
    /\ UNCHANGED <<calls, lock>>

\* Keystore.GetFreshAddresses
GetFreshAddresses(d, change, size) ==
    LET req == [op |-> "GetFreshAddresses", descriptor |-> d,
                change |-> change, size |-> size] IN
    /\ lastOp' = IF store[d] = NoMeta THEN Response(req, ErrNotFound, <<>>)
                 ELSE LET r == keystoreGetFreshAddresses(store[d], change, size)
                      IN Response(req, r.err, r.val)
    /\ UNCHANGED <<store, calls, lock>>

\* GetAllObservableAddresses, over Keystore.GetAllObservableIndexes: the
\* response holds the observable indexes and their address entries
GetAllObservableAddresses(d, change, from, to) ==
    LET req == [op |-> "GetAllObservableAddresses", descriptor |-> d,
                change |-> change, from |-> from, to |-> to] IN
    /\ lastOp' =
          IF store[d] = NoMeta THEN Response(req, ErrNotFound, <<>>)
          ELSE LET i == keystoreGetAllObservableIndexes(store[d], change,
                                                        from, to)
                   a == keystoreGetAllObservableAddresses(store[d], change,
                                                          from, to)
               IN Response(req, a.err,
                           [indexes |-> i.val, addresses |-> a.val])
    /\ UNCHANGED <<store, calls, lock>>

\* a mark request that names n paths is within the budget of used paths
WithinBudget(n, budget) == UsedCount + n <= budget

\* the requests that change the keychain, and Get; one client at a time,
\* every request is served whole
Next ==
    \/ \E l \in LookaheadSizes : CreateKeychain(Primary, Mainnet, l)
    \/ DeleteKeychain(Primary)
    \/ GetKeychainInfo(Primary)
    \/ \E p \in RequestPaths :
           WithinBudget(1, MaxUsed) /\ MarkPathAsUsed(Primary, p)
    \/ \E a \in AddressBatches(Primary) :
           WithinBudget(Len(a), MaxUsed) /\ MarkAddressesAsUsed(Primary, a)

Spec == Init /\ [][Next]_vars

\* all requests, the reads among them
NextRead ==
    \/ \E l \in LookaheadSizes : CreateKeychain(Primary, Mainnet, l)
    \/ DeleteKeychain(Primary)
    \/ GetKeychainInfo(Primary)
    \/ \E p \in RequestPaths :
           WithinBudget(1, MaxUsedRead) /\ MarkPathAsUsed(Primary, p)
    \/ \E a \in AddressBatches(Primary) :
           WithinBudget(Len(a), MaxUsedRead)
             /\ MarkAddressesAsUsed(Primary, a)
    \/ GetAccountExtendedKey(Primary)
    \/ \E c \in RequestChanges, n \in 0..MaxFresh :
           GetFreshAddresses(Primary, c, n)
    \/ \E c \in RequestChanges, from \in 0..MaxIndex, to \in 0..MaxIndex :
           GetAllObservableAddresses(Primary, c, from, to)

SpecRead == Init /\ [][NextRead]_vars

\* marks of the External chain alone, in any order
NextScenario ==
    \/ \E l \in LookaheadSizes : CreateKeychain(Primary, Mainnet, l)
    \/ \E i \in 0..ScenarioIndex :
           MarkPathAsUsed(Primary, DerivationPath(External, i))

SpecScenario == Init /\ [][NextScenario]_vars

\* marks on the two keychains of the store
NextPair ==
    \/ \E d \in Descriptors : CreateKeychain(d, Mainnet, LookaheadSmall)
    \/ \E d \in Descriptors : \E p \in Changes \X (0..PairIndex) :
           WithinBudget(1, MaxPairUsed) /\ MarkPathAsUsed(d, p)
    \/ \E d \in Descriptors : \E a \in RequestAddresses(d) :
           WithinBudget(1, MaxPairUsed) /\ MarkAddressesAsUsed(d, <<a>>)

SpecPair == Init /\ [][NextPair]_vars

----------------------------------------------------------------------------
(* The Meta accessors called one by one on the Meta of a keychain *)

\* index lists handed to SetNonConsecutiveIndexes
IndexLists == {<<>>, <<0>>, <<1, 1>>, <<MaxIndex, 0, 1>>}

\* Meta.ChangeXPub
CallChangeXPub(d, change) ==
    LET req == [op |-> "ChangeXPub", descriptor |-> d, change |-> change]
        r   == ChangeXPub(store[d], change)
    IN /\ store[d] # NoMeta
       /\ lastOp' = Response(req, r.err, r.val)
       /\ UNCHANGED <<store, calls, lock>>

\* Meta.MaxConsecutiveIndex
CallMaxConsecutiveIndex(d, change) ==
    LET req == [op |-> "MaxConsecutiveIndex", descriptor |-> d,
                change |-> change]
        r   == MaxConsecutiveIndex(store[d], change)
    IN /\ store[d] # NoMeta
       /\ lastOp' = Response(req, r.err, r.val)
       /\ UNCHANGED <<store, calls, lock>>

\* Meta.NonConsecutiveIndexes
CallNonConsecutiveIndexes(d, change) ==
    LET req == [op |-> "NonConsecutiveIndexes", descriptor |-> d,
                change |-> change]
        r   == NonConsecutiveIndexes(store[d], change)
    IN /\ store[d] # NoMeta
       /\ lastOp' = Response(req, r.err, r.val)
       /\ UNCHANGED <<store, calls, lock>>

\* Meta.MaxObservableIndex
CallMaxObservableIndex(d, change) ==
    LET req == [op |-> "MaxObservableIndex", descriptor |-> d,
                change |-> change]
        r   == MaxObservableIndex(store[d], change)
    IN /\ store[d] # NoMeta
       /\ lastOp' = Response(req, r.err, r.val)
       /\ UNCHANGED <<store, calls, lock>>

\* Meta.SetMaxConsecutiveIndex: the method assigns through the receiver and
\* returns the error
CallSetMaxConsecutiveIndex(d, change, index) ==
    LET req == [op |-> "SetMaxConsecutiveIndex", descriptor |-> d,
                change |-> change, index |-> index]
        r   == SetMaxConsecutiveIndex(store[d], change, index)
    IN /\ store[d] # NoMeta
       /\ lastOp' = Response(req, r.err, <<>>)
       /\ store' = [store EXCEPT ![d] = r.meta]
       /\ UNCHANGED <<calls, lock>>

\* Meta.SetNonConsecutiveIndexes
CallSetNonConsecutiveIndexes(d, change, indexes) ==
    LET req == [op |-> "SetNonConsecutiveIndexes", descriptor |-> d,
                change |-> change, indexes |-> indexes]
        r   == SetNonConsecutiveIndexes(store[d], change, indexes)
    IN /\ store[d] # NoMeta
       /\ lastOp' = Response(req, r.err, <<>>)
       /\ store' = [store EXCEPT ![d] = r.meta]
       /\ UNCHANGED <<calls, lock>>

NextMeta ==
    \/ \E l \in LookaheadSizes : CreateKeychain(Primary, Mainnet, l)
    \/ \E c \in RequestChanges : CallChangeXPub(Primary, c)
    \/ \E c \in RequestChanges : CallMaxConsecutiveIndex(Primary, c)
    \/ \E c \in RequestChanges : CallNonConsecutiveIndexes(Primary, c)
    \/ \E c \in RequestChanges : CallMaxObservableIndex(Primary, c)
    \/ \E c \in RequestChanges, i \in 0..MaxIndex :
           CallSetMaxConsecutiveIndex(Primary, c, i)
    \/ \E c \in RequestChanges, l \in IndexLists :
           CallSetNonConsecutiveIndexes(Primary, c, l)

SpecMeta == Init /\ [][NextMeta]_vars

----------------------------------------------------------------------------
(* Concurrent marks on one descriptor: each call runs its read-modify-write *)
(* inside Store.Update, suspended between the read and the write           *)

\* the mark requests of the concurrent clients
MarkCalls(d) ==
    {[op |-> "MarkPathAsUsed", descriptor |-> d, path |-> p]
        : p \in RequestPaths}
      \cup {[op |-> "MarkAddressesAsUsed", descriptor |-> d, addresses |-> a]
              : a \in AddressBatches(d)}

\* the call of a mark request on a Meta
ApplyCall(m, req) ==
    IF req.op = "MarkPathAsUsed" THEN keystoreMarkPathAsUsed(m, req.path)
    ELSE keystoreMarkAddressesAsUsed(m, req.addresses)

\* Store.Update without its critical section
UpdateMayEnterAlways(d) == TRUE

\* Store.Update lets a call in when no other call is in its critical
\* section on the descriptor
UpdateMayEnter(d) == lock[d] = NoClient

\* a request arrives
Begin(c, req) ==
    /\ calls[c].pc = "idle"
    /\ store[req.descriptor] # NoMeta
    /\ calls' = [calls EXCEPT ![c] = [pc |-> "called", req |-> req]]
    /\ UNCHANGED <<store, lastOp, lock>>

\* Store.Update: enter the critical section and read the Meta
UpdateRead(c) ==
    /\ calls[c].pc = "called"
    /\ UpdateMayEnter(calls[c].req.descriptor)
    /\ lock' = [lock EXCEPT ![calls[c].req.descriptor] = c]
    /\ calls' = [calls EXCEPT ![c] =
                   [pc |-> "read", req |-> @.req,
                    meta |-> store[calls[c].req.descriptor],
                    overlap |-> \E o \in Clients \ {c} :
                                   calls[o].pc \in {"called", "read"}]]
    /\ UNCHANGED <<store, lastOp>>

\* Store.Update: mark on the Meta read, write it back, leave the section
UpdateWrite(c) ==
    /\ calls[c].pc = "read"
    /\ LET d == calls[c].req.descriptor
           r == ApplyCall(calls[c].meta, calls[c].req)
       IN /\ Update(d, r)
          /\ lock' = [lock EXCEPT ![d] = IF @ = c THEN NoClient ELSE @]
          /\ calls' = [calls EXCEPT ![c] =
                         [pc |-> "done", req |-> @.req, err |-> r.err,
                          overlap |-> @.overlap]]
    /\ UNCHANGED lastOp

NextConc ==
    \/ /\ store[Primary] = NoMeta
       /\ \E l \in LookaheadSizes : CreateKeychain(Primary, Mainnet, l)
    \/ \E c \in Clients : \E req \in MarkCalls(Primary) : Begin(c, req)
    \/ \E c \in Clients : UpdateRead(c)
    \/ \E c \in Clients : UpdateWrite(c)

SpecConc == Init /\ [][NextConc]_vars

----------------------------------------------------------------------------
(* Reads and deadlines while marks are in flight: inside Store.Update a     *)
(* mark works on the Meta it has read, setter after setter, and the Meta is *)
(* written back whole                                                       *)

\* the mark requests of the clients in the runs with reads: the paths of the
\* External chain, a path of an unrecognized change, and the first External
\* address followed by the second one or by an unknown one
StagedCalls(d) ==
    LET known == NewMeta(d, Mainnet, LookaheadSmall).Addresses
        first == CHOOSE a \in DOMAIN known :
                    known[a] = DerivationPath(External, 0)
        secnd == CHOOSE a \in DOMAIN known :
                    known[a] = DerivationPath(External, 1)
    IN {[op |-> "MarkPathAsUsed", descriptor |-> d, path |-> p]
          : p \in ({External} \X (0..MaxIndex))
                    \cup {DerivationPath(OtherChange, 0)}}
         \cup {[op |-> "MarkAddressesAsUsed", descriptor |-> d,
                addresses |-> <<first, a>>] : a \in {secnd, UnknownAddress}}

\* the working Meta of a mark part of the way through: after the first
\* setter of a gap closure (max_consecutive advanced, non_consecutive not
\* filtered yet), after the first path of a batch
StageCall(m, req) ==
    IF req.op = "MarkPathAsUsed"
    THEN IF keystoreMarkPathAsUsed(m, req.path).err # NoErr THEN m
         ELSE LET c   == req.path[1]
                  i   == req.path[2]
                  nci == NonConsecutiveIndexes(m, c).val
              IN IF i = MaxConsecutiveIndex(m, c).val
                 THEN SetMaxConsecutiveIndex(m, c, CloseGaps(i + 1, nci)).meta
                 ELSE m
    ELSE IF req.addresses[1] \notin DOMAIN m.Addresses THEN m
         ELSE LET r == keystoreMarkPathAsUsed(m, m.Addresses[req.addresses[1]])
              IN IF r.err = NoErr THEN r.meta ELSE m

\* the working Meta is the Schema entry itself: what a setter assigns is in
\* the store at once
StoreWhileStagingShared(d, work) == [store EXCEPT ![d] = work]

\* the working Meta is a copy: the store keeps the Meta last written
StoreWhileStaging(d, work) == store

\* Store.Update: the mark has run part of the way on its working Meta
UpdateStage(c) ==
    /\ calls[c].pc = "read"
    /\ "work" \notin DOMAIN calls[c]
    /\ LET d == calls[c].req.descriptor
           w == StageCall(calls[c].meta, calls[c].req)
       IN /\ calls' = [calls EXCEPT ![c] =
                         [pc |-> "read", req |-> @.req, meta |-> @.meta,
                          overlap |-> @.overlap, work |-> w]]
          /\ store' = StoreWhileStaging(d, w)
    /\ UNCHANGED <<lastOp, lock>>

\* the deadline of a call passes before its write: the call fails with
\* DEADLINE_EXCEEDED, leaves Store.Update and writes nothing
UpdateAbort(c) ==
    /\ calls[c].pc \in {"called", "read"}
    /\ calls' = [calls EXCEPT ![c] =
                   [pc |-> "done", req |-> @.req,
                    err |-> ErrDeadlineExceeded,
                    staged |-> ("work" \in DOMAIN calls[c]
                                  /\ calls[c].work # calls[c].meta)]]
    /\ lock' = [d \in Descriptors |->
                  IF lock[d] = c THEN NoClient ELSE lock[d]]
    /\ UNCHANGED <<store, lastOp>>

\* a call is inside Store.Update
InFlight == \E c \in Clients : calls[c].pc = "read"

\* marks before any call is in flight, then one call per client, run
\* step by step, and reads while a call is inside Store.Update
NextStaged ==
    \/ /\ store[Primary] = NoMeta
       /\ CreateKeychain(Primary, Mainnet, LookaheadSmall)
    \/ \E i \in 0..MaxIndex :
          /\ \A c \in Clients : calls[c].pc = "idle"
          /\ WithinBudget(1, MaxSetup)
          /\ MarkPathAsUsed(Primary, DerivationPath(External, i))
    \/ \E c \in Clients : \E req \in StagedCalls(Primary) : Begin(c, req)
    \/ \E c \in Clients : UpdateRead(c)
    \/ \E c \in Clients : UpdateStage(c)
    \/ \E c \in Clients : UpdateWrite(c)
    \/ \E c \in Clients : UpdateAbort(c)
    \/ InFlight /\ GetKeychainInfo(Primary)
    \/ InFlight /\ GetFreshAddresses(Primary, External, 1)
    \/ InFlight /\ GetAllObservableAddresses(Primary, External, 0, MaxIndex)

SpecStaged == Init /\ [][NextStaged]_vars

----------------------------------------------------------------------------
(* Properties *)

\* keychains the store holds
Keychains == {d \in Descriptors : store[d] # NoMeta}

\* the fields of KeychainInfo of a chain
MaxConsecutive(m, change) ==
    IF change = External THEN m.Main.MaxConsecutiveExternalIndex
    ELSE m.Main.MaxConsecutiveInternalIndex

NonConsecutive(m, change) ==
    IF change = External THEN m.Main.NonConsecutiveExternalIndexes
    ELSE m.Main.NonConsecutiveInternalIndexes

ChainXPub(m, change) ==
    IF change = External THEN m.Main.ExternalXPub ELSE m.Main.InternalXPub

\* max_consecutive + |non_consecutive| + lookahead_size, from the fields
WindowSize(m, change) ==
    MaxConsecutive(m, change) + Len(NonConsecutive(m, change))
      + m.Main.LookaheadSize

\* the address of index i of a chain, from the fields
ChainAddress(m, change, i) ==
    EncodeAddress(DeriveExtendedKey(ChainXPub(m, change), i),
                  m.Main.Scheme, m.Main.Network)

\* indexes of a chain that the derivation cache holds
CachedIndexes(m, change) ==
    {p[2] : p \in {q \in DOMAIN m.Derivations : q[1] = change}}

\* the last request was a mark and it succeeded
MarkSucceeded ==
    /\ lastOp.req.op \in {"MarkPathAsUsed", "MarkAddressesAsUsed"}
    /\ lastOp.err = NoErr

\* C1: on each chain of each keychain, max_consecutive is the smallest index
\* that is not marked used: it is not used and every index below it is.
C1_MaxConsecutiveIsFirstUnused ==
    \A d \in Keychains, c \in Changes :
        LET m == store[d] IN
        /\ MaxConsecutive(m, c) \notin UsedIndexes(m, c)
        /\ \A i \in 0..(MaxConsecutive(m, c) - 1) : i \in UsedIndexes(m, c)

\* a mark has just succeeded and one chain has its first two indexes used
C1_Witness ==
    /\ MarkSucceeded
    /\ \E d \in Keychains, c \in Changes : MaxConsecutive(store[d], c) >= 2

\* C2: every element of non_consecutive is marked used and strictly greater
\* than max_consecutive, in every state.
C2_NonConsecutiveAboveMax ==
    \A d \in Keychains, c \in Changes :
        LET m == store[d] IN
        \A k \in 1..Len(NonConsecutive(m, c)) :
            /\ NonConsecutive(m, c)[k] \in UsedIndexes(m, c)
            /\ NonConsecutive(m, c)[k] > MaxConsecutive(m, c)

\* right after a gap closure: the mark of index i has taken max_consecutive
\* past i + 1
C2_Witness ==
    /\ lastOp.req.op = "MarkPathAsUsed"
    /\ lastOp.err = NoErr
    /\ MaxConsecutive(store[lastOp.req.descriptor], lastOp.req.path[1])
         >= lastOp.req.path[2] + 2

\* C3: MaxObservableIndex is max_consecutive + |non_consecutive| + lookahead,
\* the observable indexes (those the cache holds, those a mark accepts) are
\* exactly the indexes below it; with lookahead 20 it is 20 when nothing is
\* used and 21 when one index is used.
C3_MaxObservableIndexFormula ==
    \A d \in Keychains, c \in Changes :
        LET m == store[d]
            w == WindowSize(m, c)
        IN /\ MaxObservableIndex(m, c) = [val |-> w, err |-> NoErr]
           /\ CachedIndexes(m, c) = 0..(w - 1)
           /\ keystoreMarkPathAsUsed(m, DerivationPath(c, w - 1)).err = NoErr
           /\ keystoreMarkPathAsUsed(m, DerivationPath(c, w)).err
                = ErrAddressNotObservable
           /\ (m.Main.LookaheadSize = 20 /\ UsedIndexes(m, c) = {})
                => MaxObservableIndex(m, c).val = 20
           /\ (m.Main.LookaheadSize = 20 /\ Cardinality(UsedIndexes(m, c)) = 1)
                => MaxObservableIndex(m, c).val = 21

\* lookahead 20 and only the index MaxIndex of a chain marked
C3_Witness ==
    \E d \in Keychains, c \in Changes :
        /\ store[d].Main.LookaheadSize = 20
        /\ UsedIndexes(store[d], c) = {MaxIndex}
        /\ NonConsecutive(store[d], c) = <<MaxIndex>>
        /\ MaxObservableIndex(store[d], c).val = 21

\* the highest index of a non-empty set of indexes
Highest(S) == CHOOSE h \in S : \A i \in S : i <= h

\* C4: the lookahead_size indexes that follow the highest used index of a
\* chain are all observable.
C4_GapLimitAfterHighestUsed ==
    \A d \in Keychains, c \in Changes :
        LET m == store[d] IN
        UsedIndexes(m, c) # {}
          => \A i \in (Highest(UsedIndexes(m, c)) + 1)
                        ..(Highest(UsedIndexes(m, c)) + m.Main.LookaheadSize) :
                 i < MaxObservableIndex(m, c).val

\* C5: GetFreshAddresses returns exactly size addresses, those of the indexes
\* max_consecutive, max_consecutive + 1, ... in ascending order, and the
\* first one is at the first unused index of the chain.
C5_FreshAddressesFromMaxConsecutive ==
    (/\ lastOp.req.op = "GetFreshAddresses"
     /\ lastOp.req.descriptor \in Keychains
     /\ lastOp.req.change \in Changes)
      => LET m == store[lastOp.req.descriptor]
             c == lastOp.req.change
         IN /\ lastOp.err = NoErr
            /\ Len(lastOp.val) = lastOp.req.size
            /\ \A k \in 1..lastOp.req.size :
                   lastOp.val[k]
                     = ChainAddress(m, c, MaxConsecutive(m, c) + k - 1)
            /\ MaxConsecutive(m, c) \notin UsedIndexes(m, c)
            /\ \A i \in 0..(MaxConsecutive(m, c) - 1) : i \in UsedIndexes(m, c)

\* two fresh addresses asked on a chain whose index 0 is used
C5_Witness ==
    /\ lastOp.req.op = "GetFreshAddresses"
    /\ lastOp.err = NoErr
    /\ lastOp.req.size = 2
    /\ 0 \in UsedIndexes(store[lastOp.req.descriptor], lastOp.req.change)
    /\ lastOp.val[1] = ChainAddress(store[lastOp.req.descriptor],
                                    lastOp.req.change,
                                    MaxConsecutive(store[lastOp.req.descriptor],
                                                   lastOp.req.change))

\* C6: marking an observable path twice yields the Meta that marking it once
\* yields: on every reachable Meta and every observable path, and for every
\* MarkPathAsUsed request that repeats the previous, successful one.
C6_MarkIdempotent ==
    /\ [](\A d \in Keychains, p \in Changes \X (0..MaxIndex) :
            p[2] < WindowSize(store[d], p[1])
              => LET once  == keystoreMarkPathAsUsed(store[d], p)
                     twice == keystoreMarkPathAsUsed(once.meta, p)
                 IN /\ once.err = NoErr
                    /\ twice.err = NoErr
                    /\ twice.meta = once.meta)
    /\ [][(lastOp'.req.op = "MarkPathAsUsed" /\ lastOp'.again)
            => (lastOp'.err = NoErr /\ store' = store)]_vars

\* a path whose index is in non_consecutive has been marked a second time
C6_Witness ==
    /\ lastOp.req.op = "MarkPathAsUsed"
    /\ lastOp.again
    /\ lastOp.err = NoErr
    /\ Contains(NonConsecutive(store[lastOp.req.descriptor],
                               lastOp.req.path[1]),
                lastOp.req.path[2])

\* the indexes of a list, as a set
Elements(indexes) == {indexes[k] : k \in 1..Len(indexes)}

\* C7: on every reachable Meta, for two different observable paths p and q,
\* marking p then q and marking q then p both succeed and yield the same
\* max_consecutive, non_consecutive (as a set), MaxObservableIndex and used
\* flags.  (The statement is symmetric in p and q: each pair is taken once.)
C7_MarksCommute ==
    \A d \in Keychains :
      \A p \in Changes \X (0..MaxIndex), q \in Changes \X (0..MaxIndex) :
        (/\ p # q
         /\ (p[1] < q[1] \/ (p[1] = q[1] /\ p[2] < q[2]))
         /\ p[2] < WindowSize(store[d], p[1])
         /\ q[2] < WindowSize(store[d], q[1]))
          => LET p1 == keystoreMarkPathAsUsed(store[d], p)
                 pq == keystoreMarkPathAsUsed(p1.meta, q)
                 q1 == keystoreMarkPathAsUsed(store[d], q)
                 qp == keystoreMarkPathAsUsed(q1.meta, p)
             IN /\ p1.err = NoErr /\ pq.err = NoErr
                /\ q1.err = NoErr /\ qp.err = NoErr
                /\ \A c \in Changes :
                     /\ MaxConsecutive(pq.meta, c) = MaxConsecutive(qp.meta, c)
                     /\ Elements(NonConsecutive(pq.meta, c))
                          = Elements(NonConsecutive(qp.meta, c))
                     /\ WindowSize(pq.meta, c) = WindowSize(qp.meta, c)
                     /\ MaxObservableIndex(pq.meta, c)
                          = MaxObservableIndex(qp.meta, c)
                /\ pq.meta.Derivations = qp.meta.Derivations

\* two different paths of one chain have been marked, both above the gap
C7_Witness ==
    /\ MarkSucceeded
    /\ \E d \in Keychains, c \in Changes :
           Len(NonConsecutive(store[d], c)) >= 2

\* C8: a MarkPathAsUsed on an index at or beyond the observable window, and a
\* MarkAddressesAsUsed that names an address the address index does not
\* hold, fail with ADDRESS_NOT_OBSERVABLE and leave the store as it was.
C8_NotObservableFailsWhole ==
    [][\A d \in Keychains :
         /\ (/\ lastOp'.req.op = "MarkPathAsUsed"
             /\ lastOp'.req.descriptor = d
             /\ lastOp'.req.path[1] \in Changes
             /\ lastOp'.req.path[2]
                  >= WindowSize(store[d], lastOp'.req.path[1]))
              => (lastOp'.err = ErrAddressNotObservable /\ store' = store)
         /\ (/\ lastOp'.req.op = "MarkAddressesAsUsed"
             /\ lastOp'.req.descriptor = d
             /\ \E k \in 1..Len(lastOp'.req.addresses) :
                    lastOp'.req.addresses[k] \notin DOMAIN store[d].Addresses)
              => (lastOp'.err = ErrAddressNotObservable /\ store' = store)
         /\ (/\ lastOp'.req.op \in {"MarkPathAsUsed", "MarkAddressesAsUsed"}
             /\ lastOp'.err = ErrAddressNotObservable)
              => store' = store]_vars

\* a request of two addresses has failed: the first is observable and still
\* unused, the second is not in the address index
C8_Witness ==
    /\ lastOp.req.op = "MarkAddressesAsUsed"
    /\ lastOp.err = ErrAddressNotObservable
    /\ Len(lastOp.req.addresses) = 2
    /\ LET m == store[lastOp.req.descriptor] IN
       /\ lastOp.req.addresses[1] \in DOMAIN m.Addresses
       /\ ~m.Derivations[m.Addresses[lastOp.req.addresses[1]]].Used
       /\ lastOp.req.addresses[2] \notin DOMAIN m.Addresses

\* C9: GetAllObservableAddresses / GetAllObservableIndexes return the entries
\* of the indexes from .. min(to, MaxObservableIndex - 1), both included, in
\* ascending order, tagged with the requested change; nothing when from is
\* above the clipped to, and no index at or beyond MaxObservableIndex.
C9_ObservableRangeClipped ==
    (/\ lastOp.req.op = "GetAllObservableAddresses"
     /\ lastOp.req.descriptor \in Keychains
     /\ lastOp.req.change \in Changes)
      => LET m    == store[lastOp.req.descriptor]
             c    == lastOp.req.change
             from == lastOp.req.from
             last == Min(lastOp.req.to, WindowSize(m, c) - 1)
             n    == IF from > last THEN 0 ELSE last - from + 1
         IN /\ lastOp.err = NoErr
            /\ Len(lastOp.val.indexes) = n
            /\ Len(lastOp.val.addresses) = n
            /\ \A k \in 1..n :
                 /\ lastOp.val.indexes[k] = from + k - 1
                 /\ lastOp.val.indexes[k] < WindowSize(m, c)
                 /\ lastOp.val.addresses[k]
                      = [Address |-> ChainAddress(m, c, from + k - 1),
                         Derivation |-> <<c, from + k - 1>>,
                         Change |-> c]

\* a range whose to lies beyond the observable window has been clipped to a
\* non-empty result
C9_Witness ==
    /\ lastOp.req.op = "GetAllObservableAddresses"
    /\ lastOp.err = NoErr
    /\ lastOp.req.to
         >= WindowSize(store[lastOp.req.descriptor], lastOp.req.change)
    /\ Len(lastOp.val.indexes) >= 2

\* clients whose call has returned
Done == {c \in Clients : calls[c].pc = "done"}

\* the orders in which the calls of the clients cs can run one after another
Orders(cs) ==
    {o \in [1..Cardinality(cs) -> cs] :
        \A i \in 1..Cardinality(cs), j \in 1..Cardinality(cs) :
            i # j => o[i] # o[j]}

\* the calls of the clients of order run one after another from Meta m: the
\* final Meta and the error of each call
RECURSIVE RunSerially(_, _)
RunSerially(m, order) ==
    IF order = <<>> THEN [meta |-> m, errs |-> <<>>]
    ELSE LET r    == ApplyCall(m, calls[Head(order)].req)
             rest == RunSerially(IF r.err = NoErr THEN r.meta ELSE m,
                                 Tail(order))
         IN [meta |-> rest.meta, errs |-> <<r.err>> \o rest.errs]

\* paths a mark request names, resolved in the Meta m
NamedPaths(m, req) ==
    IF req.op = "MarkPathAsUsed" THEN {req.path}
    ELSE {m.Addresses[req.addresses[k]] : k \in 1..Len(req.addresses)}

\* C10: concurrent marks on one descriptor are serialisable: the persisted
\* Meta is the one that the calls that have returned yield when run one
\* after another in some order, with the errors they returned, and every
\* path of a successful call is marked used in it.
C10_MarksSerialisable ==
    \A d \in Keychains :
      /\ \E o \in Orders(Done) :
           LET run == RunSerially(NewMeta(d, store[d].Main.Network,
                                          store[d].Main.LookaheadSize), o)
           IN /\ run.meta = store[d]
              /\ \A k \in 1..Len(o) : run.errs[k] = calls[o[k]].err
      /\ \A c \in Done :
           calls[c].err = NoErr
             => \A p \in NamedPaths(store[d], calls[c].req) :
                  /\ p \in DOMAIN store[d].Derivations
                  /\ store[d].Derivations[p].Used
                  /\ \/ p[2] < MaxConsecutive(store[d], p[1])
                     \/ Contains(NonConsecutive(store[d], p[1]), p[2])

\* both clients have returned successfully from marks of different paths, and
\* one entered Store.Update while the other call was in flight
C10_Witness ==
    /\ Done = Clients
    /\ \A c \in Clients : calls[c].err = NoErr
    /\ \E c \in Clients : calls[c].overlap
    /\ calls["c1"].req.op = "MarkPathAsUsed"
    /\ calls["c2"].req.op = "MarkPathAsUsed"
    /\ calls["c1"].req.path # calls["c2"].req.path
    /\ calls["c1"].req.path[1] = calls["c2"].req.path[1]

\* C12: while a keychain exists (no DeleteKeychain in between), on each of
\* its chains an index marked used stays used, max_consecutive never
\* decreases and MaxObservableIndex never decreases, whatever the request.
C12_UsedAndWindowNeverShrink ==
    [][\A d \in Descriptors :
          (store[d] # NoMeta /\ store'[d] # NoMeta)
            => LET m == store[d]
                   n == store'[d]
               IN \A c \in Changes :
                    /\ UsedIndexes(m, c) \subseteq UsedIndexes(n, c)
                    /\ MaxConsecutive(n, c) >= MaxConsecutive(m, c)
                    /\ MaxObservableIndex(n, c).val
                         >= MaxObservableIndex(m, c).val
                    /\ WindowSize(n, c) >= WindowSize(m, c)]_vars

\* a new mark has just succeeded on a chain that has a closed prefix and an
\* open gap: its max_consecutive and its window have both grown
C12_Witness ==
    /\ MarkSucceeded
    /\ ~lastOp.again
    /\ \E d \in Keychains, c \in Changes :
          /\ MaxConsecutive(store[d], c) >= 1
          /\ Len(NonConsecutive(store[d], c)) >= 1
          /\ WindowSize(store[d], c) >= store[d].Main.LookaheadSize + 2

C14_CreateRefusesOverwrite ==
    [][lastOp'.req.op = "CreateKeychain"
         => LET d == lastOp'.req.descriptor IN
            IF store[d] # NoMeta
            THEN /\ lastOp'.err = ErrAlreadyExists
                 /\ store' = store
            ELSE /\ lastOp'.err = NoErr
                 /\ store'[d] # NoMeta
                 /\ lastOp'.val = store'[d].Main
                 /\ store'[d].Main.LookaheadSize = lastOp'.req.lookahead
                 /\ \A c \in Changes :
                       /\ MaxConsecutive(store'[d], c) = 0
                       /\ NonConsecutive(store'[d], c) = <<>>
                       /\ UsedIndexes(store'[d], c) = {}
                 /\ \A x \in Descriptors \ {d} : store'[x] = store[x]]_vars

\* a CreateKeychain with another lookahead has just been refused on a
\* keychain that has used indexes and an open gap
C14_Witness ==
    /\ lastOp.req.op = "CreateKeychain"
    /\ lastOp.err = ErrAlreadyExists
    /\ LET m == store[lastOp.req.descriptor] IN
       /\ m # NoMeta
       /\ m.Main.LookaheadSize # lastOp.req.lookahead
       /\ MaxConsecutive(m, External) >= 1
       /\ Len(NonConsecutive(m, External)) >= 1

\* the requests that read
ReadOps ==
    {"GetFreshAddresses", "GetAllObservableAddresses", "GetKeychainInfo",
     "GetAccountExtendedKey"}

\* C15: GetFreshAddresses, GetAllObservableAddresses, GetAllObservableIndexes,
\* GetKeychainInfo and GetAccountExtendedKey leave the persisted Meta
\* unchanged, and a GetFreshAddresses that follows a GetFreshAddresses with
\* the same arguments returns the same sequence.
C15_ReadsDoNotMutate ==
    [][/\ lastOp'.req.op \in ReadOps => store' = store
       /\ (lastOp'.req.op = "GetFreshAddresses" /\ lastOp'.req = lastOp.req)
            => /\ lastOp'.val = lastOp.val
               /\ lastOp'.err = lastOp.err]_vars

\* GetFreshAddresses has just answered, for the second time in a row, a
\* request for two addresses of a chain whose first index is used
C15_Witness ==
    /\ lastOp.req.op = "GetFreshAddresses"
    /\ lastOp.again
    /\ lastOp.req.size = 2
    /\ Len(lastOp.val) = 2
    /\ MaxConsecutive(store[lastOp.req.descriptor], lastOp.req.change) >= 1

\* C16: a successful mark of the index i = max_consecutive of a chain takes
\* max_consecutive to the first index after i that is not in
\* non_consecutive, and removes from non_consecutive the indexes it has
\* passed, keeping the others in order; after the mark of index 3 and then
\* of 0, 1 and 2, max_consecutive is 4 and non_consecutive is empty.
C16_GapClosure ==
    /\ [](\A d \in Keychains :
            LET m == store[d] IN
            /\ \A k \in 0..2 :
                  UsedIndexes(m, External) = (0..(k - 1)) \cup {3}
                    => /\ MaxConsecutive(m, External) = k
                       /\ NonConsecutive(m, External) = <<3>>
            /\ UsedIndexes(m, External) = 0..3
                  => /\ MaxConsecutive(m, External) = 4
                     /\ NonConsecutive(m, External) = <<>>)
    /\ [][(/\ lastOp'.req.op = "MarkPathAsUsed"
           /\ lastOp'.err = NoErr
           /\ lastOp'.req.path[1] \in Changes
           /\ lastOp'.req.path[2]
                = MaxConsecutive(store[lastOp'.req.descriptor],
                                 lastOp'.req.path[1]))
            => LET d   == lastOp'.req.descriptor
                   c   == lastOp'.req.path[1]
                   i   == lastOp'.req.path[2]
                   nc  == NonConsecutive(store[d], c)
                   new == MaxConsecutive(store'[d], c)
               IN /\ new > i
                  /\ \A j \in (i + 1)..(new - 1) : Contains(nc, j)
                  /\ ~Contains(nc, new)
                  /\ NonConsecutive(store'[d], c)
                       = SelectSeq(nc, LAMBDA x : x > new)]_vars

\* index 3 was marked before 0, 1 and 2: the mark of index 2 has just taken
\* max_consecutive from 2 to 4 and emptied non_consecutive
C16_Witness ==
    /\ lastOp.req.op = "MarkPathAsUsed"
    /\ lastOp.err = NoErr
    /\ ~lastOp.again
    /\ lastOp.req.path = DerivationPath(External, 2)
    /\ LET m == store[lastOp.req.descriptor] IN
       /\ m.Main.LookaheadSize = lookaheadSize
       /\ UsedIndexes(m, External) = 0..3
       /\ MaxConsecutive(m, External) = 4
       /\ NonConsecutive(m, External) = <<>>

\* the elements of indexes that are not less than max, in their order
RECURSIVE KeptFrom(_, _)
KeptFrom(indexes, max) ==
    IF indexes = <<>> THEN <<>>
    ELSE (IF Head(indexes) >= max THEN <<Head(indexes)>> ELSE <<>>)
           \o KeptFrom(Tail(indexes), max)

\* C17: SetNonConsecutiveIndexes(change, indexes) stores, in their original
\* order, exactly the elements of indexes that are not less than the
\* max_consecutive the chain has when it is called, and changes nothing
\* else; called after SetMaxConsecutiveIndex(change, k) it filters by k,
\* called before it filters by the old max_consecutive.
C17_SetNonConsecutiveFilters ==
    /\ [](\A d \in Keychains, c \in Changes, l \in IndexLists,
             k \in 0..MaxIndex :
            LET m     == store[d]
                after == SetNonConsecutiveIndexes(
                            SetMaxConsecutiveIndex(m, c, k).meta, c, l).meta
                befor == SetMaxConsecutiveIndex(
                            SetNonConsecutiveIndexes(m, c, l).meta, c, k).meta
            IN /\ NonConsecutive(after, c) = KeptFrom(l, k)
               /\ NonConsecutive(befor, c)
                    = KeptFrom(l, MaxConsecutive(m, c)))
    /\ [][(/\ lastOp'.req.op = "SetNonConsecutiveIndexes"
           /\ lastOp'.req.change \in Changes)
            => LET d == lastOp'.req.descriptor
                   c == lastOp'.req.change
                   o == IF c = External THEN Internal ELSE External
               IN /\ lastOp'.err = NoErr
                  /\ NonConsecutive(store'[d], c)
                       = KeptFrom(lastOp'.req.indexes,
                                  MaxConsecutive(store[d], c))
                  /\ NonConsecutive(store'[d], o)
                       = NonConsecutive(store[d], o)
                  /\ \A x \in Changes :
                        MaxConsecutive(store'[d], x)
                          = MaxConsecutive(store[d], x)
                  /\ store'[d].Derivations = store[d].Derivations
                  /\ store'[d].Addresses = store[d].Addresses]_vars

\* SetNonConsecutiveIndexes has just stored, of a list of three indexes, the
\* one above max_consecutive = 1 and the one equal to it, in their order,
\* and dropped the one below
C17_Witness ==
    /\ lastOp.req.op = "SetNonConsecutiveIndexes"
    /\ lastOp.err = NoErr
    /\ lastOp.req.indexes = <<MaxIndex, 0, 1>>
    /\ LET m == store[lastOp.req.descriptor] IN
       /\ MaxConsecutive(m, lastOp.req.change) = 1
       /\ NonConsecutive(m, lastOp.req.change) = <<MaxIndex, 1>>

\* C18: non_consecutive of a chain never holds an index twice, and its
\* length is the number of distinct used indexes above max_consecutive.
C18_NonConsecutiveIsASet ==
    \A d \in Keychains, c \in Changes :
        LET m  == store[d]
            nc == NonConsecutive(m, c)
        IN /\ \A j \in 1..Len(nc), k \in 1..Len(nc) :
                 nc[j] = nc[k] => j = k
           /\ Len(nc)
                = Cardinality({i \in UsedIndexes(m, c) :
                                 i > MaxConsecutive(m, c)})

\* an index of non_consecutive has just been marked again, on a chain whose
\* non_consecutive holds two indexes
C18_Witness ==
    /\ lastOp.req.op = "MarkPathAsUsed"
    /\ lastOp.err = NoErr
    /\ lastOp.again
    /\ lastOp.req.path[1] \in Changes
    /\ LET nc == NonConsecutive(store[lastOp.req.descriptor],
                                lastOp.req.path[1])
       IN /\ Len(nc) = 2
          /\ Contains(nc, lastOp.req.path[2])

\* C19: for a change that is neither External nor Internal, ChangeXPub,
\* MaxConsecutiveIndex, SetMaxConsecutiveIndex, NonConsecutiveIndexes,
\* SetNonConsecutiveIndexes and MaxObservableIndex each return the
\* unrecognized-change error, and the two setters leave every field of the
\* Meta as it was.
C19_UnrecognizedChange ==
    /\ [](\A d \in Keychains, ch \in {OtherChange, OtherChange + 1} :
            LET m == store[d] IN
            /\ ChangeXPub(m, ch).err = ErrUnrecognizedChange
            /\ MaxConsecutiveIndex(m, ch).err = ErrUnrecognizedChange
            /\ NonConsecutiveIndexes(m, ch).err = ErrUnrecognizedChange
            /\ MaxObservableIndex(m, ch).err = ErrUnrecognizedChange
            /\ \A i \in 0..MaxIndex :
                  SetMaxConsecutiveIndex(m, ch, i)
                    = [meta |-> m, err |-> ErrUnrecognizedChange]
            /\ \A l \in IndexLists :
                  SetNonConsecutiveIndexes(m, ch, l)
                    = [meta |-> m, err |-> ErrUnrecognizedChange])
    /\ [][(/\ lastOp'.req.op \in {"ChangeXPub", "MaxConsecutiveIndex",
                                   "SetMaxConsecutiveIndex",
                                   "NonConsecutiveIndexes",
                                   "SetNonConsecutiveIndexes",
                                   "MaxObservableIndex"}
           /\ lastOp'.req.change \notin Changes)
            => /\ lastOp'.err = ErrUnrecognizedChange
               /\ store' = store]_vars

\* SetMaxConsecutiveIndex has just been refused for an unrecognized change
\* on a Meta whose chains both have indexes set
C19_Witness ==
    /\ lastOp.req.op = "SetMaxConsecutiveIndex"
    /\ lastOp.req.change = OtherChange
    /\ lastOp.req.index = MaxIndex
    /\ lastOp.err = ErrUnrecognizedChange
    /\ LET m == store[lastOp.req.descriptor] IN
       /\ MaxConsecutive(m, External) = 1
       /\ MaxConsecutive(m, Internal) = 1
       /\ NonConsecutive(m, External) # <<>>

\* C20: no address that GetFreshAddresses returns is the address of an index
\* marked used on the chain, whatever the size asked and also when
\* non_consecutive is not empty.
C20_FreshAddressesUnused ==
    (/\ lastOp.req.op = "GetFreshAddresses"
     /\ lastOp.err = NoErr)
      => LET m == store[lastOp.req.descriptor]
             c == lastOp.req.change
         IN \A k \in 1..Len(lastOp.val), i \in UsedIndexes(m, c) :
               lastOp.val[k] # ChainAddress(m, c, i)

\* the KeychainInfo info shows no part of a mark: no index of a
\* non_consecutive list is below or at the max_consecutive of its chain
Settled(info) ==
    /\ \A k \in 1..Len(info.NonConsecutiveExternalIndexes) :
          info.NonConsecutiveExternalIndexes[k]
            > info.MaxConsecutiveExternalIndex
    /\ \A k \in 1..Len(info.NonConsecutiveInternalIndexes) :
          info.NonConsecutiveInternalIndexes[k]
            > info.MaxConsecutiveInternalIndex

\* C11: while marks are in flight, the persisted Meta changes only by the
\* write of a whole successful mark, so that a read sees the Meta before the
\* mark or the Meta after it and never a part of it (max_consecutive
\* advanced, non_consecutive not filtered; one path of a batch marked); a
\* call that fails, by DEADLINE_EXCEEDED or otherwise, leaves the persisted
\* Meta as it was.
C11_NoPartialStateObservable ==
    /\ [](\A d \in Keychains : Settled(store[d].Main))
    /\ []((lastOp.req.op = "GetKeychainInfo" /\ lastOp.err = NoErr)
            => Settled(lastOp.val))
    /\ [][/\ \A d \in Descriptors :
               (store[d] # NoMeta /\ store'[d] # store[d])
                 => \/ /\ lastOp'.req.op = "MarkPathAsUsed"
                       /\ lastOp'.err = NoErr
                       /\ store'[d]
                            = keystoreMarkPathAsUsed(store[d],
                                                     lastOp'.req.path).meta
                    \/ \E c \in Clients :
                          /\ calls[c].pc = "read"
                          /\ calls'[c].pc = "done"
                          /\ calls'[c].err = NoErr
                          /\ store'[d] = ApplyCall(store[d], calls[c].req).meta
          /\ \A c \in Clients :
               (calls[c].pc # "done" /\ calls'[c].pc = "done"
                  /\ calls'[c].err # NoErr)
                 => store' = store
          /\ (lastOp'.req.op \in ReadOps /\ calls' = calls)
               => LET m == store'[lastOp'.req.descriptor] IN
                  /\ lastOp'.req.op = "GetKeychainInfo"
                       => lastOp'.val = m.Main
                  /\ lastOp'.req.op = "GetFreshAddresses"
                       => lastOp'.val
                            = <<ChainAddress(m, External,
                                             MaxConsecutive(m, External))>>]_vars

\* GetKeychainInfo has answered with the persisted KeychainInfo while a gap
\* closure is part of the way through on its working Meta (max_consecutive
\* advanced, non_consecutive not filtered), and the call of the other
\* client has failed with DEADLINE_EXCEEDED part of the way through
C11_Witness ==
    /\ lastOp.req.op = "GetKeychainInfo"
    /\ lastOp.err = NoErr
    /\ lastOp.val = store[Primary].Main
    /\ \E c \in Clients, o \in Clients :
          /\ calls[c].pc = "read"
          /\ "work" \in DOMAIN calls[c]
          /\ ~Settled(calls[c].work.Main)
          /\ calls[c].work.Main # lastOp.val
          /\ calls[o].pc = "done"
          /\ calls[o].err = ErrDeadlineExceeded
          /\ calls[o].staged

\* the fields of KeychainInfo that no mark and no setter assigns
Immutable(m) ==
    [f \in {"Descriptor", "XPub", "SLIP32ExtendedPublicKey", "ExternalXPub",
             "InternalXPub", "LookaheadSize", "Scheme", "Network"}
       |-> m.Main[f]]

\* the index accounting of a chain
ChainState(m, change) ==
    <<MaxConsecutive(m, change), NonConsecutive(m, change),
      MaxObservableIndex(m, change)>>

\* the changes of the paths a mark request names, resolved in the Meta m
TouchedChanges(m, req) ==
    IF req.op = "MarkPathAsUsed" THEN {req.path[1]}
    ELSE {m.Addresses[a][1] :
            a \in {req.addresses[k] : k \in 1..Len(req.addresses)}
                    \cap DOMAIN m.Addresses}

\* C21: a mark on one change of one descriptor, and SetMaxConsecutiveIndex
\* and SetNonConsecutiveIndexes on one change of a Meta, leave the other
\* change's max_consecutive, non_consecutive and MaxObservableIndex as they
\* were, leave xpub, scheme, network, lookahead_size and descriptor as they
\* were, and a mark leaves the Meta of every other descriptor as it was.
C21_ChainsAndDescriptorsIndependent ==
    /\ [](\A d \in Keychains, c \in Changes :
            LET m == store[d]
                o == IF c = External THEN Internal ELSE External
            IN /\ \A i \in 0..(PairIndex + 1) :
                     LET n == SetMaxConsecutiveIndex(m, c, i).meta IN
                     /\ ChainState(n, o) = ChainState(m, o)
                     /\ NonConsecutive(n, c) = NonConsecutive(m, c)
                     /\ Immutable(n) = Immutable(m)
                     /\ n.Derivations = m.Derivations
                     /\ n.Addresses = m.Addresses
               /\ \A l \in IndexLists :
                     LET n == SetNonConsecutiveIndexes(m, c, l).meta IN
                     /\ ChainState(n, o) = ChainState(m, o)
                     /\ MaxConsecutive(n, c) = MaxConsecutive(m, c)
                     /\ Immutable(n) = Immutable(m)
                     /\ n.Derivations = m.Derivations
                     /\ n.Addresses = m.Addresses)
    /\ [][(/\ lastOp'.req.op \in {"MarkPathAsUsed", "MarkAddressesAsUsed"}
           /\ store[lastOp'.req.descriptor] # NoMeta)
            => LET d == lastOp'.req.descriptor
                   m == store[d]
                   n == store'[d]
                   touched == TouchedChanges(m, lastOp'.req)
               IN /\ \A x \in Descriptors \ {d} : store'[x] = store[x]
                  /\ n # NoMeta
                  /\ Immutable(n) = Immutable(m)
                  /\ \A o \in Changes \ touched :
                        /\ ChainState(n, o) = ChainState(m, o)
                        /\ UsedIndexes(n, o) = UsedIndexes(m, o)
                        /\ CachedIndexes(n, o) = CachedIndexes(m, o)]_vars

\* a new mark has just succeeded on the External chain of one keychain
\* whose Internal chain has a used index, while the other keychain has a
\* used index too
C21_Witness ==
    /\ lastOp.req.op = "MarkPathAsUsed"
    /\ lastOp.err = NoErr
    /\ ~lastOp.again
    /\ lastOp.req.path[1] = External
    /\ Keychains = Descriptors
    /\ UsedIndexes(store[lastOp.req.descriptor], Internal) # {}
    /\ \E x \in Descriptors \ {lastOp.req.descriptor}, c \in Changes :
          UsedIndexes(store[x], c) # {}

====
